---- MODULE Spec2Model ----
(***************************************************************************)
(* Utilities::MPI::Partitioner (source/base/partitioner.cc).               *)
(*                                                                         *)
(* One Partitioner object per MPI process.  The model is of the release    *)
(* build with DEAL_II_WITH_MPI: Assert(...) is compiled out (a debug build *)
(* aborts where one fails, so its behaviours are prefixes of the ones      *)
(* here), AssertThrow(...) stays.  A collective call (set_ghost_indices,   *)
(* and the constructors and reinit that call it) is one action in which    *)
(* every process of the communicator takes part with its own arguments;    *)
(* the data that the MPI calls move between the processes is computed by   *)
(* the operators below, line by line from the source.                      *)
(***************************************************************************)
EXTENDS Integers, Sequences, FiniteSets, TLC

\* number of processes of MPI_COMM_WORLD
NProcs == 3
\* largest size() of an index set passed by a caller
MaxN == 3
\* largest number of ghost indices the objects hold and the callers of one
\* collective call pass together
MaxGhosts == 2
\* largest number of member-function calls made on the plans in Spec
MaxCalls == 2
\* width of unsigned int in the model (32 in the program)
UIntBits == 4
\* largest size() of an index set in SpecDense
MaxDenseN == 8
\* largest size() of an index set, and largest number of ghost indices the
\* callers of one collective call pass, in SpecCompatible
MaxCompatN == 2
MaxCompatGhosts == 1
\* largest size() of an index set in SpecExchange
MaxExchangeN == 2
\* SpecCapacity: how far the owned counts go below and above the largest
\* unsigned int
MaxMargin == 2

Procs == 0 .. (NProcs - 1)

\* the function f itself, with its values computed once
Stored(f) == f @@ << >>

\* std::numeric_limits<unsigned int>::max(), numbers::invalid_unsigned_int
invalid_unsigned_int == 2^UIntBits - 1
\* types::global_dof_index is twice as wide as unsigned int
dof_index_mod == 2^(2 * UIntBits)
\* numbers::invalid_dof_index
invalid_dof_index == dof_index_mod - 1
uint_mod == invalid_unsigned_int + 1
\* std::numeric_limits<int>::max()
int_max == 2^(UIntBits - 1) - 1

MPI_COMM_SELF == "MPI_COMM_SELF"
MPI_COMM_WORLD == "MPI_COMM_WORLD"

-----------------------------------------------------------------------------
(* IndexSet: a subset of [0, size), kept as the set of its elements.  Its   *)
(* range list is the list of maximal runs of the elements (compress()).     *)

IndexSet(sz, el) == [size |-> sz, elems |-> el]

\* IndexSet(): size 0, no elements
EmptyIndexSet == IndexSet(0, {})

RangeSet(a, b) == {x \in a .. (b - 1) : TRUE}

n_elements(s) == Cardinality(s.elems)

MinOf(S) == CHOOSE x \in S : \A y \in S : x <= y

RECURSIVE SortedSeq(_)
SortedSeq(S) ==
  IF S = {} THEN <<>>
  ELSE LET m == MinOf(S) IN <<m>> \o SortedSeq(S \ {m})

\* IndexSet::fill_index_vector, and the order of IndexSet's iterators
fill_index_vector(s) == SortedSeq(s.elems)

\* IndexSet::nth_index_in_set (n counts from 0)
nth_index_in_set(s, n) == fill_index_vector(s)[n + 1]

\* IndexSet::index_within_set
index_within_set(s, i) == Cardinality({x \in s.elems : x < i})

\* IndexSet::is_contiguous: at most one range
is_contiguous(s) ==
  \A x, y \in s.elems : \A z \in x .. y : z \in s.elems

\* IndexSet::set_size: sets the size; the elements stay (the release build
\* does not look at them)
set_size(s, n) == [s EXCEPT !.size = n]

\* IndexSet::add_range(begin, end)
add_range(s, a, b) == [s EXCEPT !.elems = @ \cup RangeSet(a, b)]

\* IndexSet::subtract_set
subtract_set(s, other) == [s EXCEPT !.elems = @ \ other.elems]

\* the number of ranges an IndexSet holds after compress()
n_ranges(s) == Cardinality({x \in s.elems : (x - 1) \notin s.elems})

-----------------------------------------------------------------------------
(* The Partitioner object.                                                  *)

\* Partitioner::Partitioner()
Partitioner_default ==
  [ global_size                              |-> 0,
    locally_owned_range_data                 |-> EmptyIndexSet,
    local_range_data                         |-> <<0, 0>>,
    ghost_indices_data                       |-> EmptyIndexSet,
    n_ghost_indices_data                     |-> 0,
    n_import_indices_data                    |-> 0,
    n_ghost_indices_in_larger_set            |-> 0,
    my_pid                                   |-> 0,
    n_procs                                  |-> 1,
    communicator                             |-> MPI_COMM_SELF,
    have_ghost_indices                       |-> FALSE,
    ghost_targets_data                       |-> <<>>,
    import_targets_data                      |-> <<>>,
    import_indices_data                      |-> <<>>,
    import_indices_chunks_by_rank_data       |-> <<>>,
    ghost_indices_subset_data                |-> <<>>,
    ghost_indices_subset_chunks_by_rank_data |-> <<>> ]

\* Partitioner::Partitioner(const unsigned int size)
Partitioner_size(size) ==
  [ Partitioner_default EXCEPT
      !.global_size = size,
      !.locally_owned_range_data = add_range(IndexSet(size, {}), 0, size),
      !.local_range_data = <<0, size>>,
      !.ghost_indices_data = set_size(EmptyIndexSet, size) ]

\* the members the two constructors with a communicator initialise before
\* their body runs
Partitioner_comm(locally_owned_indices, communicator_in) ==
  [ Partitioner_default EXCEPT
      !.global_size = locally_owned_indices.size,
      !.communicator = communicator_in ]

\* Partitioner::local_size()
local_size(pl) ==
  ((pl.local_range_data[2] - pl.local_range_data[1]) % dof_index_mod) % uint_mod

\* Utilities::MPI::this_mpi_process / n_mpi_processes of the communicator,
\* for the process p
this_mpi_process(comm, p) == IF comm = MPI_COMM_WORLD THEN p ELSE 0
n_mpi_processes(comm) == IF comm = MPI_COMM_WORLD THEN NProcs ELSE 1

\* set_owned_indices up to its AssertThrow: rank, size and local range
set_owned_range(pl, locally_owned_indices, p) ==
  LET p1 == [pl EXCEPT !.my_pid = this_mpi_process(pl.communicator, p),
                       !.n_procs = n_mpi_processes(pl.communicator)]
  IN IF n_elements(locally_owned_indices) > 0
       THEN [p1 EXCEPT !.local_range_data =
               << nth_index_in_set(locally_owned_indices, 0),
                  nth_index_in_set(locally_owned_indices, 0)
                    + n_elements(locally_owned_indices) >>]
       ELSE p1

\* the AssertThrow of set_owned_indices fails
owned_index_overflow(pl) ==
  ~ ((pl.local_range_data[2] - pl.local_range_data[1]) % dof_index_mod
       < invalid_unsigned_int)

\* Partitioner::set_owned_indices, called by process p; when the
\* AssertThrow fails the members set before it keep their new values
set_owned_indices(pl, locally_owned_indices, p) ==
  LET p2 == set_owned_range(pl, locally_owned_indices, p)
  IN IF owned_index_overflow(p2) THEN p2
     ELSE [p2 EXCEPT
             !.locally_owned_range_data =
                add_range(set_size(@, locally_owned_indices.size),
                          p2.local_range_data[1], p2.local_range_data[2]),
             !.ghost_indices_data = set_size(@, locally_owned_indices.size)]

-----------------------------------------------------------------------------
(* set_ghost_indices.  R is the function from the ranks 0 .. n-1 of the     *)
(* communicator to the Partitioner objects of its processes.                *)

\* a faulty normalisation: the locally owned range is not subtracted
normalise_without_subtract(pl, ghost_indices_in) ==
  LET g1 == IF ghost_indices_in.size # pl.locally_owned_range_data.size
              THEN set_size(ghost_indices_in, pl.locally_owned_range_data.size)
              ELSE ghost_indices_in
  IN [pl EXCEPT !.ghost_indices_data = g1,
                !.n_ghost_indices_data = n_elements(g1) % uint_mod]

\* lines 162-173: the ghost set without the locally owned range, and its count
normalise_ghosts(pl, ghost_indices_in) ==
  LET g1 == IF ghost_indices_in.size # pl.locally_owned_range_data.size
              THEN set_size(ghost_indices_in, pl.locally_owned_range_data.size)
              ELSE ghost_indices_in
      g2 == subtract_set(g1, pl.locally_owned_range_data)
  IN [pl EXCEPT !.ghost_indices_data = g2,
                !.n_ghost_indices_data = n_elements(g2) % uint_mod]

\* the AssertThrow of set_ghost_indices fails
ghost_index_overflow(pl) ==
  ~ (n_elements(pl.ghost_indices_data) < invalid_unsigned_int)

RECURSIVE SumUpTo(_, _)
SumUpTo(f, k) == IF k < 0 THEN 0 ELSE f[k] + SumUpTo(f, k - 1)

\* Utilities::MPI::sum(n_ghost_indices_data, communicator)
MPI_sum_n_ghost(R, n) ==
  SumUpTo([r \in 0 .. (n - 1) |-> R[r].n_ghost_indices_data], n - 1) % uint_mod

\* lines 175-176
global_visibility(R, n, r) ==
  [R[r] EXCEPT !.have_ghost_indices = MPI_sum_n_ghost(R, n) > 0]

\* lines 195-212: first_index after MPI_Bcast, MPI_Allgather and the
\* assignment of global_size, on the process of rank r
first_index_gathered(R, n, r) ==
  [i \in 0 .. n |->
     IF i = n THEN R[r].global_size
     ELSE IF i = 0 THEN R[0].local_range_data[1]
     ELSE R[i - 1].local_range_data[2]]

\* lines 222-224: the loop over i = 1 .. n_procs-1, from i on
RECURSIVE fixup_from(_, _, _)
fixup_from(first_index, i, n) ==
  IF i >= n THEN first_index
  ELSE fixup_from(IF first_index[i] = 0
                    THEN [first_index EXCEPT ![i] = first_index[i - 1]]
                    ELSE first_index,
                  i + 1, n)

\* lines 195-224: first_index as the process of rank r ends with
first_index_of(R, n, r) ==
  LET fi == first_index_gathered(R, n, r)
  IN IF R[r].global_size > 0 THEN fixup_from(fi, 1, n) ELSE fi

\* a faulty correction: the local range is set to the gathered start also
\* when it agrees with it
local_range_fixup_always(R, n, r) ==
  LET first_index == first_index_of(R, n, r)
      pl == R[r]
  IN IF pl.global_size > 0
       THEN [pl EXCEPT !.local_range_data =
               <<first_index[pl.my_pid], first_index[pl.my_pid]>>]
       ELSE pl

\* lines 220-234: the correction of the local range
local_range_fixup(R, n, r) ==
  LET first_index == first_index_of(R, n, r)
      pl == R[r]
  IN IF pl.global_size > 0 /\ first_index[pl.my_pid] # pl.local_range_data[1]
       THEN [pl EXCEPT !.local_range_data =
               <<first_index[pl.my_pid], first_index[pl.my_pid]>>]
       ELSE pl

\* the ranks whose locally owned range holds the index g
owners_of(R, n, g) ==
  {r \in 0 .. (n - 1) : g \in R[r].locally_owned_range_data.elems}

\* the indices some process of the communicator asks the owner of
requested(R, n) ==
  UNION {R[r].ghost_indices_data.elems : r \in 0 .. (n - 1)}

\* the answers Utilities::MPI::compute_index_owner can give: one owner for
\* each requested index, among the processes that own it
owner_maps(R, n) ==
  {ow \in [requested(R, n) -> 0 .. (n - 1)] :
     \A g \in requested(R, n) : ow[g] \in owners_of(R, n, g)}

\* a faulty resolution: every process is told that it owns its ghost indices
compute_index_owner_self(pl, ow) ==
  [k \in 1 .. n_elements(pl.ghost_indices_data) |-> pl.my_pid]

\* Utilities::MPI::compute_index_owner: the owner of each ghost index, in
\* the order of the ghost indices
compute_index_owner(pl, ow) ==
  LET ghosts == fill_index_vector(pl.ghost_indices_data)
  IN [k \in 1 .. Len(ghosts) |-> ow[ghosts[k]]]

\* lines 248-257: the loop over index_owner, from its k-th entry on
RECURSIVE group_owners(_, _, _)
group_owners(index_owner, k, targets) ==
  IF k > Len(index_owner) THEN targets
  ELSE LET i == index_owner[k]
           back == targets[Len(targets)]
       IN group_owners(index_owner, k + 1,
            IF i = back[1]
              THEN [targets EXCEPT ![Len(targets)] = <<back[1], back[2] + 1>>]
              ELSE Append(targets, <<i, 1>>))

\* lines 243-258: ghost_targets_data
ghost_targets_of(index_owner) ==
  IF Len(index_owner) > 0
    THEN group_owners(index_owner, 1, << <<index_owner[1], 0>> >>)
    ELSE <<>>

\* lines 264-268: send_buffer; a later entry of ghost_targets_data for the
\* same rank overwrites an earlier one
RECURSIVE fill_send_buffer(_, _, _)
fill_send_buffer(buf, targets, i) ==
  IF i > Len(targets) THEN buf
  ELSE fill_send_buffer([buf EXCEPT ![targets[i][1]] = targets[i][2]],
                        targets, i + 1)

send_buffer_of(pl, n) ==
  fill_send_buffer([r \in 0 .. (n - 1) |-> 0], pl.ghost_targets_data, 1)

\* a faulty exchange: the receive buffer says whether a rank requests, not
\* how much
receive_buffer_flags(R, n, r) ==
  [a \in 0 .. (n - 1) |-> IF send_buffer_of(R[a], n)[r] > 0 THEN 1 ELSE 0]

\* lines 270-277: MPI_Alltoall of one int; receive_buffer of rank r
receive_buffer_of(R, n, r) ==
  [a \in 0 .. (n - 1) |-> send_buffer_of(R[a], n)[r]]

\* lines 280-287: the loop over i = 0 .. n_procs-1, from i on
RECURSIVE collect_import_targets(_, _, _, _)
collect_import_targets(receive_buffer, i, n, temp) ==
  IF i >= n THEN temp
  ELSE collect_import_targets(receive_buffer, i + 1, n,
         IF receive_buffer[i] > 0
           THEN Append(temp, <<i, receive_buffer[i]>>)
           ELSE temp)

\* a faulty collection: the loop over the receive buffer runs from the last
\* rank down
import_targets_descending(R, n, r) ==
  LET receive_buffer == receive_buffer_of(R, n, r)
  IN SelectSeq([i \in 1 .. n |-> <<n - i, receive_buffer[n - i]>>],
               LAMBDA t : t[2] > 0)

import_targets_of(R, n, r) ==
  collect_import_targets(receive_buffer_of(R, n, r), 0, n, <<>>)

RECURSIVE SumCounts(_)
SumCounts(targets) ==
  IF targets = <<>> THEN 0
  ELSE targets[1][2] + SumCounts(Tail(targets))

\* lines 236-290 on the process of rank r (R holds the ghost targets of no
\* process yet): ghost_targets_data, import_targets_data, n_import_indices_data
set_ghost_targets(pl, ow) ==
  [pl EXCEPT !.ghost_targets_data = ghost_targets_of(compute_index_owner(pl, ow))]

set_import_targets(R, n, r) ==
  LET temp == import_targets_of(R, n, r)
  IN [R[r] EXCEPT !.import_targets_data = temp,
                  !.n_import_indices_data = SumCounts(temp) % uint_mod]

\* the start of the slice of the i-th target in the expanded index vector
RECURSIVE slice_start(_, _)
slice_start(targets, i) ==
  IF i <= 1 THEN 0 ELSE targets[i - 1][2] + slice_start(targets, i - 1)

\* lines 318-320: expanded_ghost_indices
expanded_ghost_indices_of(pl) ==
  IF pl.n_ghost_indices_data > 0
    THEN fill_index_vector(pl.ghost_indices_data)
    ELSE <<>>

\* lines 323-335: the buffer of the MPI_Isend for the i-th ghost target
isend_buffer(pl, i) ==
  LET start == slice_start(pl.ghost_targets_data, i)
      expanded == expanded_ghost_indices_of(pl)
  IN [k \in 1 .. pl.ghost_targets_data[i][2] |-> expanded[start + k]]

\* the entries of ghost_targets_data of pl that send to the rank b
isends_to(pl, b) ==
  {i \in 1 .. Len(pl.ghost_targets_data) : pl.ghost_targets_data[i][1] = b}

\* lines 264-345: every MPI_Isend meets the one MPI_Irecv posted for its
\* sender, so that MPI_Waitall returns: no process sends twice to one rank,
\* and every count fits the int that send_buffer and the MPI calls take
exchange_completes(R, n) ==
  /\ \A a, b \in 0 .. (n - 1) : Cardinality(isends_to(R[a], b)) <= 1
  /\ \A a \in 0 .. (n - 1) : \A i \in 1 .. Len(R[a].ghost_targets_data) :
       R[a].ghost_targets_data[i][2] <= int_max

\* what the MPI_Irecv from the rank a delivers to the rank b
irecv_buffer(R, a, b) ==
  LET i == CHOOSE j \in isends_to(R[a], b) : TRUE
  IN isend_buffer(R[a], i)

\* lines 296-345: expanded_import_indices on rank r, import target p onwards
RECURSIVE expanded_import_from(_, _, _)
expanded_import_from(R, r, p) ==
  IF p > Len(R[r].import_targets_data) THEN <<>>
  ELSE irecv_buffer(R, R[r].import_targets_data[p][1], r)
         \o expanded_import_from(R, r, p + 1)

expanded_import_indices_of(R, r) == expanded_import_from(R, r, 1)

\* a faulty compression: every index becomes a range of its own
compress_without_merging(expanded, shift, count, first, ii, acc) ==
  acc.ranges \o
    [k \in 1 .. (count - ii) |->
       << (expanded[shift + ii + k] - first) % uint_mod,
          (expanded[shift + ii + k] - first + 1) % uint_mod >>]

\* lines 361-385: the loop over ii of one import chunk, from ii on;
\* a range is a pair of unsigned int
RECURSIVE compress_import_chunk(_, _, _, _, _, _)
compress_import_chunk(expanded, shift, count, first, ii, acc) ==
  IF ii >= count THEN acc.ranges
  ELSE LET new_index == (expanded[shift + ii + 1] - first) % dof_index_mod
       IN compress_import_chunk(expanded, shift, count, first, ii + 1,
            [last_index |-> new_index,
             ranges |->
               IF new_index = (acc.last_index + 1) % dof_index_mod
                 THEN [acc.ranges EXCEPT ![Len(acc.ranges)] =
                         <<@[1], (@[2] + 1) % uint_mod>>]
                 ELSE Append(acc.ranges, <<new_index % uint_mod,
                                           (new_index + 1) % uint_mod>>)])

\* lines 357-389: the loop over the import targets, from p on
RECURSIVE compress_import_chunks(_, _, _, _, _)

\* a faulty compression: last_index is not reset between the chunks, the
\* expanded indices are compressed as one run
compress_chunks_without_reset(pl, expanded, p, shift, acc) ==
  LET run(k) == compress_import_chunk(expanded, 0, k, pl.local_range_data[1], 0,
                  [last_index |-> invalid_dof_index - 1, ranges |-> <<>>])
  IN [compressed_import_indices |-> run(Len(expanded)),
      chunks_by_rank |->
        <<0>> \o [q \in 1 .. Len(pl.import_targets_data) |->
                    Len(run(slice_start(pl.import_targets_data, q + 1)))]]

compress_import_chunks(pl, expanded, p, shift, acc) ==
  IF p > Len(pl.import_targets_data) THEN acc
  ELSE LET ranges == compress_import_chunk(
                       expanded, shift, pl.import_targets_data[p][2],
                       pl.local_range_data[1], 0,
                       [last_index |-> invalid_dof_index - 1,
                        ranges |-> acc.compressed_import_indices])
       IN compress_import_chunks(pl, expanded, p + 1,
            shift + pl.import_targets_data[p][2],
            [compressed_import_indices |-> ranges,
             chunks_by_rank |-> Append(acc.chunks_by_rank, Len(ranges))])

\* lines 361-379: back() is called on the empty compressed_import_indices
\* when the first index received is local_range_data.first - 1
compress_back_of_empty(pl, expanded) ==
  /\ Len(expanded) > 0
  /\ (expanded[1] - pl.local_range_data[1]) % dof_index_mod = invalid_dof_index

\* a faulty compression: the received global indices are stored as they
\* are, local_range_data.first is not subtracted
compress_global_indices(R, r) ==
  LET res == compress_import_chunks([R[r] EXCEPT !.local_range_data[1] = 0],
               expanded_import_indices_of(R, r), 1, 0,
               [compressed_import_indices |-> <<>>, chunks_by_rank |-> <<0>>])
  IN [R[r] EXCEPT
        !.import_indices_data = res.compressed_import_indices,
        !.import_indices_chunks_by_rank_data = res.chunks_by_rank]

\* lines 347-390 on the received indices expanded
compress_expanded(pl, expanded) ==
  LET res == compress_import_chunks(pl, expanded, 1, 0,
               [compressed_import_indices |-> <<>>, chunks_by_rank |-> <<0>>])
  IN [pl EXCEPT
        !.import_indices_data = res.compressed_import_indices,
        !.import_indices_chunks_by_rank_data = res.chunks_by_rank]

\* lines 347-390: import_indices_data and import_indices_chunks_by_rank_data
compress_import_indices(R, r) ==
  compress_expanded(R[r], expanded_import_indices_of(R, r))

\* lines 406-413: no larger ghost set is given
identity_subset(pl) ==
  [pl EXCEPT
     !.ghost_indices_subset_chunks_by_rank_data = <<>>,
     !.ghost_indices_subset_data =
        Append(@, <<local_size(pl),
                    (local_size(pl) + pl.n_ghost_indices_data) % uint_mod>>),
     !.n_ghost_indices_in_larger_set = pl.n_ghost_indices_data]

\* lines 431-445: expanded_numbering
expanded_numbering_of(pl, larger_ghost_index_set) ==
  LET ghosts == fill_index_vector(pl.ghost_indices_data)
  IN [k \in 1 .. Len(ghosts) |->
        index_within_set(larger_ghost_index_set, ghosts[k]) % uint_mod]

\* lines 458-470: the loop over ii of one ghost target, from ii on
RECURSIVE subset_chunk(_, _, _, _, _)
subset_chunk(expanded_numbering, shift, count, ii, acc) ==
  IF ii >= count THEN acc.ranges
  ELSE LET e == expanded_numbering[shift + ii + 1]
       IN subset_chunk(expanded_numbering, shift, count, ii + 1,
            [last_index |-> e,
             ranges |->
               IF e = (acc.last_index + 1) % uint_mod
                 THEN [acc.ranges EXCEPT ![Len(acc.ranges)] =
                         <<@[1], (@[2] + 1) % uint_mod>>]
                 ELSE Append(acc.ranges, <<e, (e + 1) % uint_mod>>)])

\* lines 455-474: the loop over the ghost targets, from p on
RECURSIVE subset_chunks(_, _, _, _, _)
subset_chunks(pl, expanded_numbering, p, shift, acc) ==
  IF p > Len(pl.ghost_targets_data) THEN acc
  ELSE LET ranges == subset_chunk(
                       expanded_numbering, shift, pl.ghost_targets_data[p][2], 0,
                       [last_index |-> invalid_unsigned_int - 1,
                        ranges |-> acc.ghost_indices_subset])
       IN subset_chunks(pl, expanded_numbering, p + 1,
            shift + pl.ghost_targets_data[p][2],
            [ghost_indices_subset |-> ranges,
             chunks_by_rank |-> Append(acc.chunks_by_rank, Len(ranges))])

\* lines 414-476: a larger ghost set is given
larger_subset(pl, larger_ghost_index_set) ==
  LET res == subset_chunks(pl, expanded_numbering_of(pl, larger_ghost_index_set),
               1, 0, [ghost_indices_subset |-> <<>>, chunks_by_rank |-> <<0>>])
  IN [pl EXCEPT
        !.n_ghost_indices_in_larger_set =
           n_elements(larger_ghost_index_set) % uint_mod,
        !.ghost_indices_subset_chunks_by_rank_data = res.chunks_by_rank,
        !.ghost_indices_subset_data = res.ghost_indices_subset]

\* lines 406-476
ghost_subset(pl, larger_ghost_index_set) ==
  IF larger_ghost_index_set.size = 0
    THEN identity_subset(pl)
    ELSE larger_subset(pl, larger_ghost_index_set)

\* lines 162-176 on every rank
normalised(R, n, ghost_in) ==
  LET R1 == Stored([r \in 0 .. (n - 1) |-> normalise_ghosts(R[r], ghost_in[r])])
  IN Stored([r \in 0 .. (n - 1) |-> global_visibility(R1, n, r)])

\* lines 195-476 on every rank, for the owners ow that compute_index_owner
\* reports
communication_pattern(R2, n, larger, ow) ==
  LET R3 == Stored([r \in 0 .. (n - 1) |-> local_range_fixup(R2, n, r)])
      R4 == Stored([r \in 0 .. (n - 1) |-> set_ghost_targets(R3[r], ow)])
      R5 == Stored([r \in 0 .. (n - 1) |-> set_import_targets(R4, n, r)])
      R6 == Stored([r \in 0 .. (n - 1) |-> compress_import_indices(R5, r)])
  IN Stored([r \in 0 .. (n - 1) |-> ghost_subset(R6[r], larger[r])])

\* Partitioner::set_ghost_indices, called on every rank of the communicator
\* on the objects R; R2 holds them after lines 162-176.  A rank whose
\* AssertThrow fails leaves with ghost_indices_data assigned, and a rank
\* with n_procs < 2 returns early
set_ghost_indices(R, R2, n, larger, ow) ==
  LET R7 == communication_pattern(R2, n, larger, ow)
  IN Stored([r \in 0 .. (n - 1) |->
        IF ghost_index_overflow(R2[r])
          THEN [R[r] EXCEPT !.ghost_indices_data = R2[r].ghost_indices_data]
        ELSE IF R2[r].n_procs < 2 THEN R2[r]
        ELSE R7[r]])

\* set_ghost_indices returns on every rank: compute_index_owner finds an
\* owner for every ghost index and the point-to-point exchange completes
set_ghost_indices_returns(R2, n, ow) ==
  LET R4 == Stored([r \in 0 .. (n - 1) |->
                      set_ghost_targets(local_range_fixup(R2, n, r), ow)])
  IN (\E r \in 0 .. (n - 1) : R2[r].n_procs >= 2) => exchange_completes(R4, n)

-----------------------------------------------------------------------------
(* is_compatible and is_globally_compatible.                                *)

\* a communicator made by MPI_Comm_dup: a new handle on the same processes
MPI_COMM_SELF_DUP == "MPI_COMM_SELF_DUP"
MPI_COMM_WORLD_DUP == "MPI_COMM_WORLD_DUP"

\* the processes a communicator handle ranks, named by the communicator
\* they first came from
group_of(comm) ==
  IF comm \in {MPI_COMM_WORLD, MPI_COMM_WORLD_DUP} THEN MPI_COMM_WORLD
  ELSE MPI_COMM_SELF

\* MPI_Comm_compare on the handles of one process
MPI_Comm_compare(comm1, comm2) ==
  IF comm1 = comm2 THEN "MPI_IDENT"
  ELSE IF group_of(comm1) = group_of(comm2) \/ NProcs = 1 THEN "MPI_CONGRUENT"
  ELSE "MPI_UNEQUAL"

\* IndexSet::operator==
IndexSet_equal(s1, s2) == s1.elems = s2.elems

\* a faulty comparison: the communicators are not compared
is_compatible_on_any_communicator(this, that, same_object) ==
  \/ same_object
  \/ /\ this.global_size = that.global_size
     /\ this.local_range_data = that.local_range_data
     /\ IndexSet_equal(this.ghost_indices_data, that.ghost_indices_data)

\* Partitioner::is_compatible(part) called on the object this;
\* same_object: &part == this
is_compatible(this, that, same_object) ==
  IF same_object THEN TRUE
  ELSE IF MPI_Comm_compare(that.communicator, this.communicator)
            \notin {"MPI_IDENT", "MPI_CONGRUENT"}
    THEN FALSE
  ELSE /\ this.global_size = that.global_size
       /\ this.local_range_data = that.local_range_data
       /\ IndexSet_equal(this.ghost_indices_data, that.ghost_indices_data)

\* Utilities::MPI::min of the values f gives the n ranks
MPI_min(f, n) == MinOf({f[r] : r \in 0 .. (n - 1)})

\* Partitioner::is_globally_compatible(part), called by every rank of the
\* communicator on its objects R[r] and Rthat[r]
\* a faulty global answer: the local answer of rank 0, without the minimum
\* over the ranks
is_compatible_at_root(R, Rthat, n) == is_compatible(R[0], Rthat[0], FALSE)

is_globally_compatible(R, Rthat, n) ==
  MPI_min([r \in 0 .. (n - 1) |->
             IF is_compatible(R[r], Rthat[r], FALSE) THEN 1 ELSE 0], n) = 1

-----------------------------------------------------------------------------
(* The state: one Partitioner per process, and what was last called on it;  *)
(* a second Partitioner per process and what is_compatible and              *)
(* is_globally_compatible returned for the two.                             *)

VARIABLES
  part,     \* part[p]: the Partitioner object of process p
  state,    \* state[p]: Empty, OwnedSet, PlanReady or PlanReadyLarger
  call,     \* call[p]: the last call on part[p] and its arguments
  exc,      \* exc[p]: the exception the last call on part[p] threw, or "none"
  ncalls,   \* the number of calls made so far
  other,    \* other[p]: a second Partitioner object of process p
  answer,   \* answer[p]: what the compatibility queries of p returned
  pc,       \* pc[p]: the MPI call of set_ghost_indices that p is in
  gathered, \* gathered[p]: the local range p gave to MPI_Bcast / MPI_Allgather
  isent,    \* isent[p]: the number of MPI_Isend calls p has made
  irecv,    \* irecv[p]: the MPI_Irecv requests of p, in the order posted
  rbuf,     \* rbuf[p]: expanded_import_indices of p
  net       \* the messages sent and not yet received

\* set_ghost_indices run call by call
exchange == <<pc, gathered, isent, irecv, rbuf, net>>

vars == <<part, state, call, exc, ncalls, other, answer, exchange>>

\* the variables the calls on part[p] leave alone
aside == <<other, answer, exchange>>

\* no compatibility query was made
NotAsked ==
  [asked |-> FALSE, forward |-> FALSE, backward |-> FALSE, self |-> FALSE,
   global |-> FALSE]

\* the arguments of a call; an argument the call does not have is IndexSet()
Call(owned, ghost_in, larger) ==
  [owned |-> owned, ghost_in |-> ghost_in, larger |-> larger]

\* the processes that take part in a call of process p on the communicator c
Members(c, p) == IF c = MPI_COMM_WORLD THEN Procs ELSE {p}

\* the process of rank r in the communicator c that process p is in
ProcOf(c, p, r) == IF c = MPI_COMM_WORLD THEN r ELSE p

\* f seen by rank: from the ranks of the communicator to f of their process
ByRank(c, p, f) ==
  Stored([r \in 0 .. (n_mpi_processes(c) - 1) |-> f[ProcOf(c, p, r)]])

\* f with the values of the members of the communicator replaced by those
\* that R gives their ranks
Spread(c, p, f, R) ==
  [q \in Procs |->
     IF q \in Members(c, p) THEN R[this_mpi_process(c, q)] ELSE f[q]]

Init ==
  /\ part = [p \in Procs |-> Partitioner_default]
  /\ state = [p \in Procs |-> "Empty"]
  /\ call = [p \in Procs |->
               Call(EmptyIndexSet, EmptyIndexSet, EmptyIndexSet)]
  /\ exc = [p \in Procs |-> "none"]
  /\ ncalls = 0
  /\ other = [p \in Procs |-> Partitioner_default]
  /\ answer = [p \in Procs |-> NotAsked]
  /\ pc = [p \in Procs |-> "idle"]
  /\ gathered = [p \in Procs |-> <<0, 0>>]
  /\ isent = [p \in Procs |-> 0]
  /\ irecv = [p \in Procs |-> <<>>]
  /\ rbuf = [p \in Procs |-> <<>>]
  /\ net = {}

-----------------------------------------------------------------------------
(* The arguments the callers pass.                                          *)

Sizes == 0 .. MaxN

\* the owned sets of the n ranks tile [0, N) in rank order: rank r owns
\* [cuts[r], cuts[r+1])
Tilings(n, N) ==
  {cuts \in [0 .. n -> 0 .. N] :
     /\ cuts[0] = 0
     /\ cuts[n] = N
     /\ \A r \in 0 .. (n - 1) : cuts[r] <= cuts[r + 1]}

OwnedOf(n, N, cuts) ==
  Stored([r \in 0 .. (n - 1) |-> IndexSet(N, RangeSet(cuts[r], cuts[r + 1]))])

\* the subsets of U with at most k elements
RECURSIVE SubsetsUpTo(_, _)
SubsetsUpTo(U, k) ==
  IF k <= 0 THEN {{}}
  ELSE LET smaller == SubsetsUpTo(U, k - 1)
       IN smaller \cup {T \cup {x} : T \in smaller, x \in U}

\* the sets of at most k pairs <<rank, index>>
PairSets(n, N, k) == SubsetsUpTo((0 .. (n - 1)) \X (0 .. (N - 1)), k)

\* the ghost sets of the ranks: rank r asks for the indices S pairs it with;
\* a caller without ghosts passes IndexSet()
GhostsOf(n, N, S) ==
  Stored([r \in 0 .. (n - 1) |->
     LET el == {i \in 0 .. (N - 1) : <<r, i>> \in S}
     IN IF el = {} THEN EmptyIndexSet ELSE IndexSet(N, el)])

NoLarger(n) == Stored([r \in 0 .. (n - 1) |-> EmptyIndexSet])

\* the larger ghost sets: the ghosts of R[r] and the indices E pairs r with
LargerOf(R, n, N, E) ==
  Stored([r \in 0 .. (n - 1) |->
     IndexSet(N, R[r].ghost_indices_data.elems
                   \cup {i \in 0 .. (N - 1) : <<r, i>> \in E})])

\* the pairs <<rank, index>> that add to the ghosts of a rank of R an index
\* that the rank does not own
ExtraPairs(R, n, N) ==
  {e \in (0 .. (n - 1)) \X (0 .. (N - 1)) :
     /\ e[2] \notin R[e[1]].locally_owned_range_data.elems
     /\ e[2] \notin R[e[1]].ghost_indices_data.elems}

-----------------------------------------------------------------------------
(* The calls.  c is the communicator of the call and p a process in it; on  *)
(* MPI_COMM_WORLD every process makes the call, on MPI_COMM_SELF p alone.   *)

\* the owners compute_index_owner can report to the ranks of R2; it is not
\* called on a single process
owner_choices(R2, n) ==
  IF n < 2 THEN {<< >>} ELSE owner_maps(R2, n)

NoneThrown(c, p) ==
  [q \in Procs |-> IF q \in Members(c, p) THEN "none" ELSE exc[q]]

\* set_owned_indices has thrown on the ranks whose range overflows; the
\* call ends there (a single process: the others of a larger communicator
\* would wait for it in the next collective)
OwnedThrows(c, p, R1, calls) ==
  /\ n_mpi_processes(c) = 1
  /\ part' = Spread(c, p, part, R1)
  /\ exc' = Spread(c, p, exc, [r \in {0} |-> "IndexOverflow"])
  /\ call' = Spread(c, p, call, calls)
  /\ state' = state

\* the members of the communicator run set_ghost_indices on the objects R1
GhostPhase(c, p, R1, ghost_in, larger, calls) ==
  LET n == n_mpi_processes(c)
  IN \E R2 \in {normalised(R1, n, ghost_in)} : \E ow \in owner_choices(R2, n) :
       /\ set_ghost_indices_returns(R2, n, ow)
       /\ part' = Spread(c, p, part, set_ghost_indices(R1, R2, n, larger, ow))
       /\ state' = Spread(c, p, state,
                     [r \in 0 .. (n - 1) |->
                        IF ghost_index_overflow(R2[r]) THEN state[ProcOf(c, p, r)]
                        ELSE IF larger[r].size = 0 THEN "PlanReady"
                        ELSE "PlanReadyLarger"])
       /\ exc' = Spread(c, p, exc,
                   [r \in 0 .. (n - 1) |->
                      IF ghost_index_overflow(R2[r]) THEN "IndexOverflow"
                      ELSE "none"])
       /\ call' = Spread(c, p, call, calls)

\* Partitioner::Partitioner()
Construct(p) ==
  /\ part' = [part EXCEPT ![p] = Partitioner_default]
  /\ state' = [state EXCEPT ![p] = "Empty"]
  /\ call' = [call EXCEPT ![p] =
                Call(EmptyIndexSet, EmptyIndexSet, EmptyIndexSet)]
  /\ exc' = [exc EXCEPT ![p] = "none"]

\* Partitioner::Partitioner(const unsigned int size)
ConstructSize(p, size) ==
  /\ part' = [part EXCEPT ![p] = Partitioner_size(size)]
  /\ state' = [state EXCEPT ![p] = "OwnedSet"]
  /\ call' = [call EXCEPT ![p] =
                Call(IndexSet(size, RangeSet(0, size)),
                     EmptyIndexSet, EmptyIndexSet)]
  /\ exc' = [exc EXCEPT ![p] = "none"]

\* Partitioner::Partitioner(locally_owned_indices, communicator_in)
ConstructOwned(c, p, N, cuts) ==
  LET n == n_mpi_processes(c)
      owned == OwnedOf(n, N, cuts)
      R1 == Stored([r \in 0 .. (n - 1) |->
                      set_owned_indices(Partitioner_comm(owned[r], c), owned[r],
                                        ProcOf(c, p, r))])
      calls == [r \in 0 .. (n - 1) |->
                  Call(owned[r], EmptyIndexSet, EmptyIndexSet)]
  IN IF \E r \in 0 .. (n - 1) : owned_index_overflow(R1[r])
       THEN OwnedThrows(c, p, R1, calls)
       ELSE /\ part' = Spread(c, p, part, R1)
            /\ state' = Spread(c, p, state, [r \in 0 .. (n - 1) |-> "OwnedSet"])
            /\ call' = Spread(c, p, call, calls)
            /\ exc' = NoneThrown(c, p)

\* Partitioner::Partitioner(locally_owned_indices, ghost_indices_in,
\*                          communicator_in)
ConstructOwnedGhost(c, p, N, cuts, ghost_in) ==
  LET n == n_mpi_processes(c)
      owned == OwnedOf(n, N, cuts)
      R1 == Stored([r \in 0 .. (n - 1) |->
                      set_owned_indices(Partitioner_comm(owned[r], c), owned[r],
                                        ProcOf(c, p, r))])
      calls == [r \in 0 .. (n - 1) |->
                  Call(owned[r], ghost_in[r],
                       EmptyIndexSet)]
  IN IF \E r \in 0 .. (n - 1) : owned_index_overflow(R1[r])
       THEN OwnedThrows(c, p, R1, calls)
       ELSE GhostPhase(c, p, R1, ghost_in, NoLarger(n), calls)

\* Partitioner::reinit
Reinit(c, p, N, cuts, ghost_in) ==
  LET n == n_mpi_processes(c)
      owned == OwnedOf(n, N, cuts)
      R0 == [r \in 0 .. (n - 1) |->
               [part[ProcOf(c, p, r)] EXCEPT !.have_ghost_indices = FALSE,
                                             !.communicator = c]]
      R1 == Stored([r \in 0 .. (n - 1) |->
                      set_owned_indices(R0[r], owned[r], ProcOf(c, p, r))])
      calls == [r \in 0 .. (n - 1) |->
                  Call(owned[r], ghost_in[r], EmptyIndexSet)]
  IN IF \E r \in 0 .. (n - 1) : owned_index_overflow(R1[r])
       THEN OwnedThrows(c, p, R1, calls)
       ELSE GhostPhase(c, p, R1, ghost_in, NoLarger(n), calls)

\* every member of the communicator c holds its object on c
OnCommunicator(c, p) ==
  \A q \in Members(c, p) : part[q].communicator = c

\* Partitioner::set_owned_indices
SetOwnedIndices(c, p, N, cuts) ==
  LET n == n_mpi_processes(c)
      owned == OwnedOf(n, N, cuts)
      R1 == Stored([r \in 0 .. (n - 1) |->
                      set_owned_indices(part[ProcOf(c, p, r)], owned[r],
                                        ProcOf(c, p, r))])
      calls == [r \in 0 .. (n - 1) |->
                  Call(owned[r], EmptyIndexSet, EmptyIndexSet)]
  IN /\ OnCommunicator(c, p)
     /\ IF \E r \in 0 .. (n - 1) : owned_index_overflow(R1[r])
          THEN OwnedThrows(c, p, R1, calls)
          ELSE /\ part' = Spread(c, p, part, R1)
               /\ state' = Spread(c, p, state, [r \in 0 .. (n - 1) |-> "OwnedSet"])
               /\ call' = Spread(c, p, call, calls)
               /\ exc' = NoneThrown(c, p)

\* Partitioner::set_ghost_indices
SetGhostIndices(c, p, ghost_in, larger) ==
  LET n == n_mpi_processes(c)
      R1 == ByRank(c, p, part)
      calls == [r \in 0 .. (n - 1) |->
                  Call(call[ProcOf(c, p, r)].owned,
                       ghost_in[r], larger[r])]
  IN /\ OnCommunicator(c, p)
     /\ GhostPhase(c, p, R1, ghost_in, larger, calls)

\* Partitioner::Partitioner(locally_owned_indices, ghost_indices_in,
\*                          communicator_in) for the second object of every
\* member; comm is the handle the callers pass, c or a duplicate of c
ConstructOther(c, p, comm, N, cuts, ghost_in) ==
  LET n == n_mpi_processes(c)
      owned == OwnedOf(n, N, cuts)
      R1 == Stored([r \in 0 .. (n - 1) |->
                      set_owned_indices(Partitioner_comm(owned[r], c), owned[r],
                                        ProcOf(c, p, r))])
  IN /\ \A r \in 0 .. (n - 1) : ~ owned_index_overflow(R1[r])
     /\ \E R2 \in {normalised(R1, n, ghost_in)} : \E ow \in owner_choices(R2, n) :
          /\ \A r \in 0 .. (n - 1) : ~ ghost_index_overflow(R2[r])
          /\ set_ghost_indices_returns(R2, n, ow)
          /\ \E R7 \in {set_ghost_indices(R1, R2, n, NoLarger(n), ow)} :
               other' = Spread(c, p, other,
                          [r \in 0 .. (n - 1) |->
                             [R7[r] EXCEPT !.communicator = comm]])
     /\ UNCHANGED <<part, state, call, exc, ncalls, answer, exchange>>

\* every member of the communicator of part[p] calls
\* part.is_globally_compatible(other); is_compatible is called in both
\* directions and on the object itself as well
Compare(c, p) ==
  LET n == n_mpi_processes(c)
      R == ByRank(c, p, part)
      Rthat == ByRank(c, p, other)
  IN /\ OnCommunicator(c, p)
     /\ answer' = Spread(c, p, answer,
                    [r \in 0 .. (n - 1) |->
                       [asked |-> TRUE,
                        forward |-> is_compatible(R[r], Rthat[r], FALSE),
                        backward |-> is_compatible(Rthat[r], R[r], FALSE),
                        self |-> is_compatible(R[r], R[r], TRUE),
                        global |-> is_globally_compatible(R, Rthat, n)]])
     /\ UNCHANGED <<part, state, call, exc, ncalls, other, exchange>>

-----------------------------------------------------------------------------
(* set_ghost_indices on MPI_COMM_WORLD, one MPI call at a time.  A step of  *)
(* a process runs from the return of one blocking call to the entry of the  *)
(* next; MPI_Isend is a step of its own.                                    *)

\* the blocking calls of set_ghost_indices in program order; pc[p] names the
\* call p has entered and not left
Stages ==
  <<"start", "sum", "bcast", "allgather", "owner", "alltoall", "isend",
    "waitall", "returned">>

stage_number(s) == CHOOSE i \in 1 .. Len(Stages) : Stages[i] = s

\* the process q has entered the call st
entered(q, st) == stage_number(pc[q]) >= stage_number(st)

\* the objects of the ranks of MPI_COMM_WORLD
World == ByRank(MPI_COMM_WORLD, 0, part)

\* the objects with the local ranges the processes gave to MPI_Bcast and
\* MPI_Allgather
Gathered ==
  Stored([q \in Procs |-> [part[q] EXCEPT !.local_range_data = gathered[q]]])

\* a faulty send: every message carries the tag 0
isend_tag_zero(pl) == 0

\* line 330: the tag of MPI_Isend
isend_tag(pl) == pl.my_pid

\* lines 304-310: the MPI_Irecv posted for the i-th import target
irecv_request(pl, i) ==
  [source   |-> pl.import_targets_data[i][1],
   tag      |-> pl.import_targets_data[i][1],
   start    |-> slice_start(pl.import_targets_data, i),
   count    |-> pl.import_targets_data[i][2],
   complete |-> FALSE]

\* a faulty match: a receive takes a message of any source and tag
matches_any(request, m) == TRUE

\* MPI matches a message to a receive by source and tag
matches(request, m) == request.source = m.src /\ request.tag = m.tag

\* lines 162-176 up to the entry of MPI::sum
EnterSum(p) ==
  /\ pc[p] = "start"
  /\ \E pl \in {normalise_ghosts(part[p], call[p].ghost_in)} :
       /\ ~ ghost_index_overflow(pl)
       /\ part' = [part EXCEPT ![p] = pl]
  /\ pc' = [pc EXCEPT ![p] = "sum"]
  /\ UNCHANGED <<state, call, exc, ncalls, other, answer,
                 gathered, isent, irecv, rbuf, net>>

\* MPI::sum returns; lines 176-200 up to the entry of MPI_Bcast
LeaveSum(p) ==
  /\ pc[p] = "sum"
  /\ \A q \in Procs : entered(q, "sum")
  /\ part[p].n_procs >= 2
  /\ part' = [part EXCEPT ![p] = global_visibility(World, NProcs, p)]
  /\ gathered' = [gathered EXCEPT ![p] = part[p].local_range_data]
  /\ pc' = [pc EXCEPT ![p] = "bcast"]
  /\ UNCHANGED <<state, call, exc, ncalls, other, answer,
                 isent, irecv, rbuf, net>>

\* MPI_Bcast returns once the root has entered it; lines 201-210 up to the
\* entry of MPI_Allgather
LeaveBcast(p) ==
  /\ pc[p] = "bcast"
  /\ entered(0, "bcast")
  /\ pc' = [pc EXCEPT ![p] = "allgather"]
  /\ UNCHANGED <<part, state, call, exc, ncalls, other, answer,
                 gathered, isent, irecv, rbuf, net>>

\* MPI_Allgather returns; lines 211-241 up to the entry of
\* compute_index_owner
LeaveAllgather(p) ==
  /\ pc[p] = "allgather"
  /\ \A q \in Procs : entered(q, "allgather")
  /\ part' = [part EXCEPT ![p] = local_range_fixup(Gathered, NProcs, p)]
  /\ pc' = [pc EXCEPT ![p] = "owner"]
  /\ UNCHANGED <<state, call, exc, ncalls, other, answer,
                 gathered, isent, irecv, rbuf, net>>

\* compute_index_owner returns; lines 243-276 up to the entry of
\* MPI_Alltoall
LeaveOwner(p) ==
  /\ pc[p] = "owner"
  /\ \A q \in Procs : entered(q, "owner")
  /\ \E ow \in owner_maps(World, NProcs) :
       part' = [part EXCEPT ![p] = set_ghost_targets(part[p], ow)]
  /\ pc' = [pc EXCEPT ![p] = "alltoall"]
  /\ UNCHANGED <<state, call, exc, ncalls, other, answer,
                 gathered, isent, irecv, rbuf, net>>

\* MPI_Alltoall returns; lines 277-322: the import targets and the
\* MPI_Irecv calls
LeaveAlltoall(p) ==
  /\ pc[p] = "alltoall"
  /\ \A q \in Procs : entered(q, "alltoall")
  /\ \E pl \in {set_import_targets(World, NProcs, p)} :
       /\ part' = [part EXCEPT ![p] = pl]
       /\ irecv' = [irecv EXCEPT ![p] =
                      [i \in 1 .. Len(pl.import_targets_data) |->
                         irecv_request(pl, i)]]
       /\ rbuf' = [rbuf EXCEPT ![p] =
                     [k \in 1 .. pl.n_import_indices_data |-> 0]]
       /\ pc' = [pc EXCEPT ![p] =
                   IF Len(pl.ghost_targets_data) = 0 THEN "waitall" ELSE "isend"]
  /\ UNCHANGED <<state, call, exc, ncalls, other, answer, gathered, isent, net>>

\* lines 323-335: one MPI_Isend; MPI buffers the message (eager) or holds
\* the send request until the message is received
Isend(p) ==
  /\ pc[p] = "isend"
  /\ \E eager \in BOOLEAN :
       net' = net \cup
                {[src   |-> p,
                  dst   |-> part[p].ghost_targets_data[isent[p] + 1][1],
                  tag   |-> isend_tag(part[p]),
                  data  |-> isend_buffer(part[p], isent[p] + 1),
                  eager |-> eager]}
  /\ isent' = [isent EXCEPT ![p] = @ + 1]
  /\ pc' = [pc EXCEPT ![p] =
              IF isent[p] + 1 = Len(part[p].ghost_targets_data)
                THEN "waitall" ELSE "isend"]
  /\ UNCHANGED <<part, state, call, exc, ncalls, other, answer,
                 gathered, irecv, rbuf>>

\* MPI delivers the message m to the first receive request of its
\* destination that matches it
Deliver(m) ==
  LET b == m.dst
      matching == {i \in 1 .. Len(irecv[b]) :
                     ~ irecv[b][i].complete /\ matches(irecv[b][i], m)}
  IN /\ matching # {}
     /\ \E i \in {MinOf(matching)} :
          /\ Len(m.data) <= irecv[b][i].count
          /\ rbuf' = [rbuf EXCEPT ![b] =
                        [k \in 1 .. Len(rbuf[b]) |->
                           IF /\ k > irecv[b][i].start
                              /\ k <= irecv[b][i].start + Len(m.data)
                             THEN m.data[k - irecv[b][i].start]
                             ELSE rbuf[b][k]]]
          /\ irecv' = [irecv EXCEPT ![b][i].complete = TRUE]
     /\ net' = net \ {m}
     /\ UNCHANGED <<part, state, call, exc, ncalls, other, answer,
                    pc, gathered, isent>>

\* lines 339-476: MPI_Waitall returns when every request of p is complete;
\* then the import indices are compressed and the call returns
Waitall(p) ==
  /\ pc[p] = "waitall"
  /\ \A i \in 1 .. Len(irecv[p]) : irecv[p][i].complete
  /\ \A m \in net : m.src = p => m.eager
  /\ part' = [part EXCEPT ![p] =
                ghost_subset(compress_expanded(part[p], rbuf[p]),
                             call[p].larger)]
  /\ state' = [state EXCEPT ![p] = "PlanReady"]
  /\ pc' = [pc EXCEPT ![p] = "returned"]
  /\ UNCHANGED <<call, exc, ncalls, other, answer, gathered, isent, irecv,
                 rbuf, net>>

-----------------------------------------------------------------------------
(* The specifications.                                                      *)

Comms == {MPI_COMM_SELF, MPI_COMM_WORLD}

\* one caller stands for the collective call of every process
Callers(c) == IF c = MPI_COMM_WORLD THEN {0} ELSE Procs

RECURSIVE CountGhosts(_, _)
CountGhosts(ghost_in, r) ==
  IF r < 0 THEN 0 ELSE n_elements(ghost_in[r]) + CountGhosts(ghost_in, r - 1)

\* the ghost sets of n ranks with at most k ghost indices in all
GhostArgsWithin(n, N, k) ==
  {GhostsOf(n, N, S) : S \in PairSets(n, N, k)}

GhostArgs(n, N) == GhostArgsWithin(n, N, MaxGhosts)

\* the ghost indices the objects hold
HeldGhosts ==
  SumUpTo([q \in Procs |-> part[q].n_ghost_indices_data], NProcs - 1)

\* the ghost sets a call on objects that hold ghosts can pass: MaxGhosts
\* bounds the ghost indices held and passed together
FurtherGhostArgs(n, N) == GhostArgsWithin(n, N, MaxGhosts - HeldGhosts)

\* the larger ghost sets that can go with the ghost sets ghost_in on the
\* objects R1: on every rank its ghosts alone, or every index it does not own
LargerSets(R1, n, N, ghost_in) ==
  LET R2 == normalised(R1, n, ghost_in)
  IN IF N = 0 THEN {}
     ELSE {LargerOf(R2, n, N, E) : E \in {{}, ExtraPairs(R2, n, N)}}

LargerArgs(R1, n, N, ghost_in) ==
  {NoLarger(n)} \cup LargerSets(R1, n, N, ghost_in)

\* the size of the index space the objects of the communicator are set to
SameSize(c, p, N) ==
  \A q \in Members(c, p) : part[q].locally_owned_range_data.size = N

Budget == ncalls < MaxCalls /\ ncalls' = ncalls + 1 /\ UNCHANGED aside

\* the members of the communicator are the objects Init made, which a
\* constructor call replaces (an object is constructed once)
Unconstructed(c, p) == \A q \in Members(c, p) : state[q] = "Empty"

\* any sequence of at most MaxCalls calls: a constructor, then member
\* functions in any order with any arguments
Next ==
  \/ \E p \in Procs :
       Budget /\ Unconstructed(MPI_COMM_SELF, p) /\ Construct(p)
  \/ \E p \in Procs :
       /\ Budget
       /\ Unconstructed(MPI_COMM_SELF, p)
       /\ \E size \in Sizes : ConstructSize(p, size)
  \/ \E c \in Comms : \E p \in Callers(c) :
       /\ Budget
       /\ Unconstructed(c, p)
       /\ \E N \in Sizes : \E cuts \in Tilings(n_mpi_processes(c), N) :
            ConstructOwned(c, p, N, cuts)
  \/ \E c \in Comms : \E p \in Callers(c) :
       /\ Budget
       /\ Unconstructed(c, p)
       /\ \E N \in Sizes : \E cuts \in Tilings(n_mpi_processes(c), N) :
            \E ghost_in \in GhostArgs(n_mpi_processes(c), N) :
              ConstructOwnedGhost(c, p, N, cuts, ghost_in)
  \/ \E c \in Comms : \E p \in Callers(c) :
       /\ Budget
       /\ \E N \in Sizes : \E cuts \in Tilings(n_mpi_processes(c), N) :
            \E ghost_in \in FurtherGhostArgs(n_mpi_processes(c), N) :
              Reinit(c, p, N, cuts, ghost_in)
  \/ \E c \in Comms : \E p \in Callers(c) :
       /\ Budget
       /\ OnCommunicator(c, p)
       /\ \E N \in Sizes : \E cuts \in Tilings(n_mpi_processes(c), N) :
            SetOwnedIndices(c, p, N, cuts)
  \/ \E c \in Comms : \E p \in Callers(c) :
       /\ Budget
       /\ OnCommunicator(c, p)
       /\ \E N \in Sizes :
            /\ SameSize(c, p, N)
            /\ \E ghost_in \in FurtherGhostArgs(n_mpi_processes(c), N) :
                 \E larger \in LargerArgs(ByRank(c, p, part),
                                          n_mpi_processes(c), N, ghost_in) :
                   SetGhostIndices(c, p, ghost_in, larger)

Spec == Init /\ [][Next]_vars

\* every member of the communicator is in the state st, and on
\* MPI_COMM_SELF no other process has left Empty (the objects of different
\* processes on MPI_COMM_SELF do not interact)
AllIn(c, p, st) ==
  /\ \A q \in Members(c, p) : state[q] = st
  /\ c = MPI_COMM_SELF => \A q \in Procs \ {p} : state[q] = "Empty"

\* the ghost sets the members passed to their last call
LastGhosts(c, p) ==
  [r \in 0 .. (n_mpi_processes(c) - 1) |-> call[ProcOf(c, p, r)].ghost_in]

\* the documented life of a Partitioner: created, populated by
\* set_owned_indices and set_ghost_indices (or by a constructor or reinit
\* that calls both), then at most one more set_ghost_indices that installs
\* a larger ghost set
NextLifecycle ==
  \/ \E p \in Procs :
       /\ AllIn(MPI_COMM_SELF, p, "Empty")
       /\ UNCHANGED <<ncalls, aside>>
       /\ \E size \in Sizes : ConstructSize(p, size)
  \/ \E c \in Comms : \E p \in Callers(c) :
       /\ AllIn(c, p, "Empty")
       /\ UNCHANGED <<ncalls, aside>>
       /\ \E N \in Sizes : \E cuts \in Tilings(n_mpi_processes(c), N) :
            ConstructOwned(c, p, N, cuts)
  \/ \E c \in Comms : \E p \in Callers(c) :
       /\ AllIn(c, p, "Empty")
       /\ UNCHANGED <<ncalls, aside>>
       /\ \E N \in Sizes : \E cuts \in Tilings(n_mpi_processes(c), N) :
            \E ghost_in \in GhostArgs(n_mpi_processes(c), N) :
              ConstructOwnedGhost(c, p, N, cuts, ghost_in)
  \/ \E c \in Comms : \E p \in Callers(c) :
       /\ AllIn(c, p, "Empty")
       /\ UNCHANGED <<ncalls, aside>>
       /\ \E N \in Sizes : \E cuts \in Tilings(n_mpi_processes(c), N) :
            \E ghost_in \in GhostArgs(n_mpi_processes(c), N) :
              Reinit(c, p, N, cuts, ghost_in)
  \/ \E c \in Comms : \E p \in Callers(c) :
       /\ AllIn(c, p, "Empty")
       /\ OnCommunicator(c, p)
       /\ UNCHANGED <<ncalls, aside>>
       /\ \E N \in Sizes : \E cuts \in Tilings(n_mpi_processes(c), N) :
            SetOwnedIndices(c, p, N, cuts)
  \/ \E c \in Comms : \E p \in Callers(c) :
       /\ AllIn(c, p, "OwnedSet")
       /\ OnCommunicator(c, p)
       /\ UNCHANGED <<ncalls, aside>>
       /\ \E N \in Sizes :
            /\ SameSize(c, p, N)
            /\ \E ghost_in \in GhostArgs(n_mpi_processes(c), N) :
                 SetGhostIndices(c, p, ghost_in, NoLarger(n_mpi_processes(c)))
  \/ \E c \in Comms : \E p \in Callers(c) :
       /\ AllIn(c, p, "PlanReady")
       /\ OnCommunicator(c, p)
       /\ UNCHANGED <<ncalls, aside>>
       /\ \E N \in Sizes :
            /\ SameSize(c, p, N)
            /\ \E larger \in LargerSets(ByRank(c, p, part),
                                        n_mpi_processes(c), N, LastGhosts(c, p)) :
                 SetGhostIndices(c, p, LastGhosts(c, p), larger)

SpecLifecycle == Init /\ [][NextLifecycle]_vars

\* replicated ghosting: a process asks for the whole index space or for
\* nothing
DenseSizes == 0 .. MaxDenseN

DenseGhostArgs(n, N) ==
  {Stored([r \in 0 .. (n - 1) |->
             IF r \in S THEN IndexSet(N, RangeSet(0, N)) ELSE EmptyIndexSet]) :
     S \in SUBSET (0 .. (n - 1))}

\* plans built once, over larger index spaces, with replicated ghosting
NextDense ==
  \/ \E c \in Comms : \E p \in Callers(c) :
       /\ AllIn(c, p, "Empty")
       /\ UNCHANGED <<ncalls, aside>>
       /\ \E N \in DenseSizes : \E cuts \in Tilings(n_mpi_processes(c), N) :
            \E ghost_in \in DenseGhostArgs(n_mpi_processes(c), N) :
              ConstructOwnedGhost(c, p, N, cuts, ghost_in)
  \/ \E c \in Comms : \E p \in Callers(c) :
       /\ AllIn(c, p, "Empty")
       /\ UNCHANGED <<ncalls, aside>>
       /\ \E N \in DenseSizes : \E cuts \in Tilings(n_mpi_processes(c), N) :
            \E ghost_in \in DenseGhostArgs(n_mpi_processes(c), N) :
              Reinit(c, p, N, cuts, ghost_in)

SpecDense == Init /\ [][NextDense]_vars

\* the communicator handles a caller can pass for the second object
Handles ==
  {MPI_COMM_SELF, MPI_COMM_SELF_DUP, MPI_COMM_WORLD, MPI_COMM_WORLD_DUP}

CompatSizes == 0 .. MaxCompatN

\* the members of the communicator have made no compatibility query
Unasked(c, p) == \A q \in Members(c, p) : ~ answer[q].asked

\* two objects per process, the first built by a constructor, the second
\* default-constructed or built by a constructor, then compared
NextCompatible ==
  \/ \E c \in Comms : \E p \in Callers(c) :
       /\ AllIn(c, p, "Empty")
       /\ UNCHANGED <<ncalls, aside>>
       /\ \E N \in CompatSizes : \E cuts \in Tilings(n_mpi_processes(c), N) :
            \E ghost_in \in GhostArgsWithin(n_mpi_processes(c), N, MaxCompatGhosts) :
              ConstructOwnedGhost(c, p, N, cuts, ghost_in)
  \/ \E comm \in Handles : \E p \in Callers(group_of(comm)) :
       /\ Unasked(group_of(comm), p)
       /\ \A q \in Members(group_of(comm), p) :
            state[q] = "PlanReady" /\ other[q] = Partitioner_default
       /\ \E N \in CompatSizes :
            \E cuts \in Tilings(n_mpi_processes(group_of(comm)), N) :
              \E ghost_in \in GhostArgsWithin(n_mpi_processes(group_of(comm)), N,
                                              MaxCompatGhosts) :
                ConstructOther(group_of(comm), p, comm, N, cuts, ghost_in)
  \/ \E c \in Comms : \E p \in Callers(c) :
       /\ Unasked(c, p)
       /\ \A q \in Members(c, p) : state[q] = "PlanReady"
       /\ Compare(c, p)

SpecCompatible == Init /\ [][NextCompatible]_vars

\* owned sets with about as many elements as unsigned int can count
CapacitySizes ==
  {0} \cup ((invalid_unsigned_int - MaxMargin) .. (invalid_unsigned_int + MaxMargin))

\* single processes that install owned sets near the capacity of the
\* local index
NextCapacity ==
  \/ \E p \in Procs :
       /\ state[p] = "Empty" /\ exc[p] = "none"
       /\ UNCHANGED <<ncalls, aside>>
       /\ \E N \in CapacitySizes : \E cuts \in Tilings(1, N) :
            ConstructOwned(MPI_COMM_SELF, p, N, cuts)
  \/ \E p \in Procs :
       /\ state[p] = "OwnedSet"
       /\ Budget
       /\ \E N \in CapacitySizes : \E cuts \in Tilings(1, N) :
            SetOwnedIndices(MPI_COMM_SELF, p, N, cuts)

SpecCapacity == Init /\ [][NextCapacity]_vars

ExchangeSizes == 0 .. MaxExchangeN

\* the object on which reinit(owned, ghost, MPI_COMM_WORLD) or the
\* constructor Partitioner(owned, ghost, MPI_COMM_WORLD) calls
\* set_owned_indices: default-constructed for reinit, with global_size set
\* for the constructor
Owning(by_reinit, locally_owned_indices) ==
  IF by_reinit
    THEN [Partitioner_default EXCEPT !.communicator = MPI_COMM_WORLD]
    ELSE Partitioner_comm(locally_owned_indices, MPI_COMM_WORLD)

\* every process of MPI_COMM_WORLD is in the constructor
\* Partitioner(owned, ghost, MPI_COMM_WORLD), or in reinit on a
\* default-constructed object, has returned from set_owned_indices and
\* calls set_ghost_indices(ghost_indices_in)
InitExchange ==
  \E N \in ExchangeSizes : \E cuts \in Tilings(NProcs, N) :
    \E ghost_in \in GhostArgs(NProcs, N) : \E by_reinit \in BOOLEAN :
      /\ part = [p \in Procs |->
                   set_owned_indices(
                     Owning(by_reinit, OwnedOf(NProcs, N, cuts)[p]),
                     OwnedOf(NProcs, N, cuts)[p], p)]
      /\ state = [p \in Procs |-> "OwnedSet"]
      /\ call = [p \in Procs |->
                   Call(OwnedOf(NProcs, N, cuts)[p], ghost_in[p], EmptyIndexSet)]
      /\ exc = [p \in Procs |-> "none"]
      /\ ncalls = 0
      /\ other = [p \in Procs |-> Partitioner_default]
      /\ answer = [p \in Procs |-> NotAsked]
      /\ pc = [p \in Procs |-> "start"]
      /\ gathered = [p \in Procs |-> <<0, 0>>]
      /\ isent = [p \in Procs |-> 0]
      /\ irecv = [p \in Procs |-> <<>>]
      /\ rbuf = [p \in Procs |-> <<>>]
      /\ net = {}

\* the steps of the process p
Step(p) ==
  \/ EnterSum(p)
  \/ LeaveSum(p)
  \/ LeaveBcast(p)
  \/ LeaveAllgather(p)
  \/ LeaveOwner(p)
  \/ LeaveAlltoall(p)
  \/ Isend(p)
  \/ Waitall(p)

NextExchange ==
  \/ \E p \in Procs : Step(p)
  \/ \E m \in net : Deliver(m)

\* the processes take their steps in any order and the messages arrive in
\* any order
SpecExchange == InitExchange /\ [][NextExchange]_vars

\* every process keeps running and MPI delivers every message whose receive
\* is posted
SpecExchangeFair ==
  /\ SpecExchange
  /\ \A p \in Procs : WF_vars(Step(p))
  /\ WF_vars(\E m \in net : Deliver(m))

-----------------------------------------------------------------------------
(* The properties of the plan.                                              *)

\* every process of MPI_COMM_WORLD has completed set_ghost_indices
Planned ==
  \A p \in Procs :
    /\ state[p] \in {"PlanReady", "PlanReadyLarger"}
    /\ part[p].communicator = MPI_COMM_WORLD
    /\ exc[p] = "none"

\* the count that targets records for the rank, 0 if the rank is absent
count_for(targets, rank) ==
  SumCounts(SelectSeq(targets, LAMBDA t : t[1] = rank))

\* C1 (symmetry): once every process of a communicator of two or more
\* processes has completed set_ghost_indices, for all ranks a # b the count
\* of a's ghost_targets for b equals the count of b's import_targets for a
C1_Symmetry ==
  Planned =>
    \A a, b \in Procs :
      a # b => count_for(part[a].ghost_targets_data, b)
                 = count_for(part[b].import_targets_data, a)

\* a rank requests two indices of one owner and a third rank is not
\* involved with either
C1_Witness ==
  /\ Planned
  /\ \E a, b, d \in Procs :
       /\ a # b /\ d \notin {a, b}
       /\ count_for(part[a].ghost_targets_data, b) = 2
       /\ count_for(part[b].import_targets_data, a) = 2
       /\ count_for(part[a].ghost_targets_data, d) = 0
       /\ count_for(part[d].import_targets_data, a) = 0

\* the indices that a list of ranges [first, second) stands for, in order
RECURSIVE decode_ranges(_)
decode_ranges(ranges) ==
  IF ranges = <<>> THEN <<>>
  ELSE [k \in 1 .. (ranges[1][2] - ranges[1][1]) |-> ranges[1][1] + k - 1]
         \o decode_ranges(Tail(ranges))

\* the ranges of the p-th chunk (p counts from 1) of a range list cut by
\* the table chunks_by_rank
chunk_of(ranges, chunks_by_rank, p) ==
  SubSeq(ranges, chunks_by_rank[p] + 1, chunks_by_rank[p + 1])

\* the global indices that chunk p of the import_indices of rank b decodes to
imported_of(b, p) ==
  LET local == decode_ranges(chunk_of(part[b].import_indices_data,
                                      part[b].import_indices_chunks_by_rank_data,
                                      p))
  IN [k \in 1 .. Len(local) |-> local[k] + part[b].local_range_data[1]]

\* the ghost indices of rank a that rank b owns, ascending
ghosts_owned_by(a, b) ==
  SortedSeq(part[a].ghost_indices_data.elems
              \cap part[b].locally_owned_range_data.elems)

\* C2 (round trip): once set_ghost_indices has completed on all processes,
\* every import chunk p of every owner b, with import_targets[p].first = a,
\* decodes (after adding b's local_range.first) to exactly the ghost indices
\* of a that b owns, in ascending order, and every rank that has ghosts
\* owned by b has a chunk
C2_RoundTrip ==
  Planned =>
    \A b \in Procs :
      /\ Len(part[b].import_indices_chunks_by_rank_data)
           = Len(part[b].import_targets_data) + 1
      /\ \A p \in 1 .. Len(part[b].import_targets_data) :
           imported_of(b, p)
             = ghosts_owned_by(part[b].import_targets_data[p][1], b)
      /\ \A a \in Procs \ {b} :
           ghosts_owned_by(a, b) # <<>> =>
             \E p \in 1 .. Len(part[b].import_targets_data) :
               part[b].import_targets_data[p][1] = a

\* an owner whose range does not start at 0 imports two indices from one
\* rank, as one chunk
C2_Witness ==
  /\ Planned
  /\ \E b \in Procs :
       /\ part[b].local_range_data[1] > 0
       /\ Len(part[b].import_targets_data) = 1
       /\ Len(imported_of(b, 1)) = 2

\* the last call on the plan of process p was a set_ghost_indices (alone or
\* inside a constructor or reinit) and it has returned
Returned(p) ==
  /\ state[p] \in {"PlanReady", "PlanReadyLarger"}
  /\ exc[p] = "none"

\* C3 (sum laws): in every state in which a call of set_ghost_indices has
\* returned, after any sequence of calls, the counts of ghost_targets sum to
\* n_ghost_indices and the counts of import_targets sum to n_import_indices
C3_SumLaws ==
  \A p \in Procs :
    Returned(p) =>
      /\ SumCounts(part[p].ghost_targets_data) = part[p].n_ghost_indices_data
      /\ SumCounts(part[p].import_targets_data) = part[p].n_import_indices_data

\* the ranks of the communicator of process p that own the index g
owner_ranks(p, g) ==
  {this_mpi_process(part[p].communicator, q) :
     q \in {q \in Members(part[p].communicator, p) :
              g \in part[q].locally_owned_range_data.elems}}

\* the owners that the resolver can report to process p are non-decreasing
\* in the order of its ghost indices
resolver_monotone(p) ==
  \A g, h \in part[p].ghost_indices_data.elems :
    g < h => \A a \in owner_ranks(p, g) : \A b \in owner_ranks(p, h) : a <= b

\* the ranks of targets are strictly ascending and every count is positive
strictly_ascending(targets) ==
  /\ \A i \in 1 .. Len(targets) : targets[i][2] > 0
  /\ \A i, j \in 1 .. Len(targets) : i < j => targets[i][1] < targets[j][1]

\* C4 (ordering of peers): after set_ghost_indices, when the resolver
\* reports owners non-decreasing in ghost order, ghost_targets and
\* import_targets are strictly ascending by rank (each rank at most once)
\* and every entry has a count > 0
C4_Ordering ==
  (\A q \in Procs : Returned(q) /\ resolver_monotone(q)) =>
    \A p \in Procs :
      /\ strictly_ascending(part[p].ghost_targets_data)
      /\ strictly_ascending(part[p].import_targets_data)

\* an owner is asked by two ranks
C4_Witness ==
  /\ Planned
  /\ \A q \in Procs : resolver_monotone(q)
  /\ \E p \in Procs : Len(part[p].import_targets_data) = 2

\* C5 (disjointness by normalisation): after set_ghost_indices(ghost_in)
\* returns, ghost_indices holds no element of locally_owned_range and equals
\* ghost_in minus locally_owned_range, also when ghost_in overlaps the owned
\* range; no error is reported, and n_ghost_indices is the element count of
\* the normalised set
C5_Disjointness ==
  \A p \in Procs :
    /\ exc[p] = "none"
    /\ state[p] \in {"PlanReady", "PlanReadyLarger"} =>
         /\ part[p].ghost_indices_data.elems
              \cap part[p].locally_owned_range_data.elems = {}
         /\ part[p].ghost_indices_data.elems
              = call[p].ghost_in.elems \ part[p].locally_owned_range_data.elems
         /\ part[p].n_ghost_indices_data
              = Cardinality(part[p].ghost_indices_data.elems)

\* a process passed a ghost set with an index it owns and one it does not
C5_Witness ==
  \E p \in Procs :
    /\ Returned(p)
    /\ call[p].ghost_in.elems \cap part[p].locally_owned_range_data.elems # {}
    /\ part[p].ghost_indices_data.elems # {}

\* C6 (have_ghost_indices agreement): once set_ghost_indices has completed
\* on all processes of the communicator, have_ghost_indices has the same
\* value on every process, and it is true iff some process of the
\* communicator has a nonempty normalised ghost set
C6_Agreement ==
  /\ Planned =>
       \A p \in Procs :
         part[p].have_ghost_indices
           = (\E q \in Procs : part[q].ghost_indices_data.elems # {})
  /\ \A p \in Procs :
       Returned(p) /\ part[p].communicator = MPI_COMM_SELF =>
         part[p].have_ghost_indices = (part[p].ghost_indices_data.elems # {})

\* C7 (idempotence): calling set_ghost_indices a second time with the same
\* arguments on a plan in state PlanReady leaves every field of the plan
\* equal to its value after the first call
C7_Idempotence ==
  [][\A c \in Comms : \A p \in Callers(c) :
       (/\ \A q \in Members(c, p) : state[q] = "PlanReady" /\ exc[q] = "none"
        /\ SetGhostIndices(c, p, LastGhosts(c, p), NoLarger(n_mpi_processes(c))))
         => part' = part]_vars

\* the positions that chunk p of the ghost_indices_subset of process q
\* decodes to
subset_positions_of(q, p) ==
  decode_ranges(chunk_of(part[q].ghost_indices_subset_data,
                         part[q].ghost_indices_subset_chunks_by_rank_data, p))

\* the positions within the larger ghost set of the ghosts of process q that
\* the rank b owns, in ascending ghost order
positions_in_larger(q, b) ==
  LET owned_by_b == {g \in part[q].ghost_indices_data.elems :
                       b \in owner_ranks(q, g)}
      ghosts == SortedSeq(owned_by_b)
  IN [k \in 1 .. Len(ghosts) |-> index_within_set(call[q].larger, ghosts[k])]

\* the larger-set subset contract on the plan of process q
subset_contract(q) ==
  /\ part[q].n_ghost_indices_in_larger_set = n_elements(call[q].larger)
  /\ Len(part[q].ghost_indices_subset_chunks_by_rank_data)
       = Len(part[q].ghost_targets_data) + 1
  /\ \A p \in 1 .. Len(part[q].ghost_targets_data) :
       /\ subset_positions_of(q, p)
            = positions_in_larger(q, part[q].ghost_targets_data[p][1])
       /\ \A k \in 1 .. Len(subset_positions_of(q, p)) :
            subset_positions_of(q, p)[k] < part[q].n_ghost_indices_in_larger_set

\* C8 (larger-set subset contract): after set_ghost_indices(ghost, larger),
\* larger containing the tight ghosts and disjoint from the owned range,
\* ghost_indices_subset decodes chunk by chunk to larger.index_within_set(g)
\* of the tight ghosts g in ascending order, chunk p holding those owned by
\* ghost_targets[p].first; every position is below
\* n_ghost_indices_in_larger_set, the element count of larger; the chunk
\* table has length ghost_targets.len() + 1; no range spans two targets
C8_LargerSubset ==
  \A q \in Procs :
    state[q] = "PlanReadyLarger" /\ exc[q] = "none" => subset_contract(q)

\* the same contract on the communicators of two or more processes
C8_OnWorld ==
  \A q \in Procs :
    (/\ state[q] = "PlanReadyLarger"
     /\ exc[q] = "none"
     /\ part[q].communicator = MPI_COMM_WORLD) => subset_contract(q)

\* C9 (identity slice): whenever a call of set_ghost_indices without a
\* larger ghost set has returned, for any number of processes and after any
\* preceding calls, ghost_indices_subset is the one range
\* [local_size, local_size + n_ghost_indices) and
\* n_ghost_indices_in_larger_set equals n_ghost_indices
C9_IdentitySlice ==
  \A p \in Procs :
    state[p] = "PlanReady" /\ exc[p] = "none" =>
      /\ part[p].ghost_indices_subset_data
           = << <<local_size(part[p]),
                  local_size(part[p]) + part[p].n_ghost_indices_data>> >>
      /\ part[p].n_ghost_indices_in_larger_set = part[p].n_ghost_indices_data

\* C10 (contiguity): after set_owned_indices(owned) returns for a contiguous
\* owned set, in whatever state it was called, locally_owned_range is the one
\* range [local_range.first, local_range.second) and holds exactly the
\* elements of owned, so local_size equals owned.count()
C10_Contiguity ==
  \A p \in Procs :
    state[p] = "OwnedSet" /\ exc[p] = "none" =>
      /\ part[p].locally_owned_range_data.elems
           = RangeSet(part[p].local_range_data[1], part[p].local_range_data[2])
      /\ part[p].locally_owned_range_data.elems = call[p].owned.elems
      /\ local_size(part[p]) = n_elements(call[p].owned)


\* the communicators of a and b compare identical or congruent and their
\* global_size, local_range and ghost_indices are equal
same_partition(a, b) ==
  /\ \/ a.communicator = b.communicator
     \/ group_of(a.communicator) = group_of(b.communicator)
  /\ a.global_size = b.global_size
  /\ a.local_range_data = b.local_range_data
  /\ a.ghost_indices_data.elems = b.ghost_indices_data.elems

\* C11 (compatibility): a.is_compatible(b) equals b.is_compatible(a), is
\* true when b aliases a, and otherwise is true exactly when the
\* communicators compare identical or congruent and global_size, local_range
\* and ghost_indices are equal; is_globally_compatible returns the same
\* boolean on every process of the communicator, true if and only if
\* is_compatible is true on every process
C11_Compatibility ==
  \A p \in Procs :
    answer[p].asked =>
      /\ answer[p].forward = answer[p].backward
      /\ answer[p].self
      /\ answer[p].forward <=> same_partition(part[p], other[p])
      /\ \A q \in Members(part[p].communicator, p) :
           answer[q].asked /\ answer[q].global = answer[p].global
      /\ answer[p].global <=>
           \A q \in Members(part[p].communicator, p) : answer[q].forward

\* the three processes of MPI_COMM_WORLD have compared their two plans, one
\* held on a duplicate of the communicator of the other; is_compatible is
\* true on one process and false on another
C11_Witness ==
  /\ \A p \in Procs :
       /\ answer[p].asked
       /\ part[p].communicator = MPI_COMM_WORLD
       /\ other[p].communicator = MPI_COMM_WORLD_DUP
       /\ ~ answer[p].global
  /\ \E p, q \in Procs : answer[p].forward /\ ~ answer[q].forward

\* the receive requests the process b has posted for the sender a
receives_from(b, a) ==
  {i \in 1 .. Len(irecv[b]) : irecv[b][i].source = a}

\* every process has returned from set_ghost_indices, every send was
\* received by the one receive its peer posted for the sender, and no
\* receive is left without its message
AllReturned ==
  /\ \A p \in Procs : pc[p] = "returned"
  /\ net = {}
  /\ \A p \in Procs : \A i \in 1 .. Len(irecv[p]) : irecv[p][i].complete
  /\ \A a, b \in Procs :
       /\ Cardinality(receives_from(b, a)) = Cardinality(isends_to(part[a], b))
       /\ Cardinality(receives_from(b, a)) <= 1

\* C12 (deadlock-free completion): when every process of the communicator
\* calls set_ghost_indices on plans whose owned ranges tile [0, N) in rank
\* order, under fair scheduling and message delivery every process
\* eventually returns, every send matched by exactly one receive of its peer
\* and no receive left unmatched
C12_Completion == <>AllReturned

\* the exchange is over and one process has received from two peers
C12_Witness ==
  /\ AllReturned
  /\ \E p \in Procs : Len(irecv[p]) = 2

\* the plans that the owned and ghost sets the processes passed determine:
\* set_ghost_indices as one function of the inputs of all processes
plans_of_inputs ==
  LET R1 == Stored([r \in Procs |->
                      set_owned_indices(
                        Owning(part[r].global_size # call[r].owned.size,
                               call[r].owned),
                        call[r].owned, r)])
      ghost_in == [r \in Procs |-> call[r].ghost_in]
      R2 == normalised(R1, NProcs, ghost_in)
      ow == CHOOSE ow \in owner_maps(R2, NProcs) : TRUE
  IN set_ghost_indices(R1, R2, NProcs, NoLarger(NProcs), ow)

\* C13 (reorder-safety and determinism): for fixed owned and ghost inputs the
\* plan each process ends with (ghost_targets, import_targets,
\* import_indices, import_indices_chunks_by_rank) is the same for every
\* interleaving of the process steps and every order of message delivery;
\* a message is identified by its (source, tag) pair and lands in the slice
\* of the receive buffer reserved for its sender
C13_Determinism ==
  /\ \A m1, m2 \in net :
       (m1.src = m2.src /\ m1.tag = m2.tag /\ m1.dst = m2.dst) => m1 = m2
  /\ \A p \in Procs : \A i \in 1 .. Len(irecv[p]) :
       irecv[p][i].complete =>
         \A k \in 1 .. irecv[p][i].count :
           rbuf[p][irecv[p][i].start + k]
             = irecv_buffer(World, irecv[p][i].source, p)[k]
  /\ \E expected \in {plans_of_inputs} :
       \A p \in Procs :
         pc[p] = "returned" =>
           /\ part[p].ghost_targets_data = expected[p].ghost_targets_data
           /\ part[p].import_targets_data = expected[p].import_targets_data
           /\ part[p].import_indices_data = expected[p].import_indices_data
           /\ part[p].import_indices_chunks_by_rank_data
                = expected[p].import_indices_chunks_by_rank_data

\* a process expects messages from two peers and the message of the higher
\* rank has arrived first, while another process has already returned
C13_Witness ==
  /\ \E p \in Procs :
       /\ Len(irecv[p]) = 2
       /\ irecv[p][2].complete
       /\ ~ irecv[p][1].complete
  /\ \E q \in Procs : pc[q] = "returned"

\* C14 (owned-count capacity): set_owned_indices accepts every contiguous
\* owned set of at most 2^32 - 1 elements (uint_mod - 1 in the model) and
\* fails with IndexOverflow exactly when the element count is 2^32 or more
C14_Capacity ==
  \A p \in Procs :
    exc[p] = "IndexOverflow" <=> n_elements(call[p].owned) >= uint_mod

\* the ranges of the p-th import chunk of the process b
import_chunk(b, p) ==
  chunk_of(part[b].import_indices_data,
           part[b].import_indices_chunks_by_rank_data, p)

\* the global indices the process b received from its p-th import target
received_of(b, p) ==
  irecv_buffer(World, part[b].import_targets_data[p][1], b)

\* C15 (RLE within a chunk): the ranges of every import chunk are non-empty,
\* strictly ascending by first and non-adjacent, and they decode to exactly
\* the sequence of global indices received for the chunk minus
\* local_range.first
C15_RLE ==
  Planned =>
    \A b \in Procs : \A p \in 1 .. Len(part[b].import_targets_data) :
      \E ranges \in {import_chunk(b, p)} :
        /\ \A i \in 1 .. Len(ranges) : ranges[i][1] < ranges[i][2]
        /\ \A i \in 1 .. (Len(ranges) - 1) : ranges[i][2] < ranges[i + 1][1]
        /\ decode_ranges(ranges)
             = [k \in 1 .. Len(received_of(b, p)) |->
                  received_of(b, p)[k] - part[b].local_range_data[1]]

\* one rank has sent two indices that are not neighbours, and its chunk
\* holds two ranges
C15_Witness ==
  /\ Planned
  /\ \E b \in Procs : \E p \in 1 .. Len(part[b].import_targets_data) :
       /\ Len(received_of(b, p)) = 2
       /\ Len(import_chunk(b, p)) = 2

\* the number of indices in a list of ranges
RECURSIVE range_total(_)
range_total(ranges) ==
  IF ranges = <<>> THEN 0
  ELSE (ranges[1][2] - ranges[1][1]) + range_total(Tail(ranges))

\* C16 (no merge across senders): no range is extended from one chunk into
\* the next, also when the next chunk starts at the local index after the
\* last one of the chunk: the ranges of a chunk hold exactly the indices
\* received from its import target, and every import target with a count
\* above 0 has at least one range in its chunk
C16_NoMergeAcrossSenders ==
  Planned =>
    \A b \in Procs : \A p \in 1 .. Len(part[b].import_targets_data) :
      /\ part[b].import_indices_chunks_by_rank_data[p]
           <= part[b].import_indices_chunks_by_rank_data[p + 1]
      /\ part[b].import_targets_data[p][2] > 0 => Len(import_chunk(b, p)) >= 1
      /\ range_total(import_chunk(b, p)) = part[b].import_targets_data[p][2]
      /\ decode_ranges(import_chunk(b, p))
           = [k \in 1 .. Len(received_of(b, p)) |->
                received_of(b, p)[k] - part[b].local_range_data[1]]

\* a process imports from two ranks, and the chunk of the second starts at
\* the local index that follows the last one of the first
C16_Witness ==
  /\ Planned
  /\ \E b \in Procs :
       /\ Len(part[b].import_targets_data) = 2
       /\ Len(import_chunk(b, 1)) = 1
       /\ Len(import_chunk(b, 2)) = 1
       /\ import_chunk(b, 1)[1][2] = import_chunk(b, 2)[1][1]

\* the start of the owned range of the rank i, for owned sets that tile the
\* index space in rank order: the number of indices the lower ranks own
RECURSIVE true_start(_)
true_start(i) ==
  IF i = 0 THEN 0 ELSE true_start(i - 1) + n_elements(call[i - 1].owned)

\* first_index, as the process p has it after the fixup, is non-decreasing
\* from 0 to the size of the index space and holds the start of the range
\* of every rank, and p has the local range of its owned set, empty at the
\* end of the nearest non-empty range before it if p owns nothing
fixup_contract(p) ==
  \E first_index \in {first_index_of(Gathered, NProcs, p)} :
    /\ first_index[0] = 0
    /\ first_index[NProcs] = call[p].owned.size
    /\ \A i \in 0 .. (NProcs - 1) :
         first_index[i] <= first_index[i + 1] /\ first_index[i] = true_start(i)
    /\ part[p].local_range_data
         = <<true_start(p), true_start(p) + n_elements(call[p].owned)>>

\* C17 (empty-process fixup): for every assignment of owned ranges that
\* tiles [0, N) in rank order, with any of the processes owning nothing,
\* after the fixup first_index is non-decreasing with first_index[0] = 0 and
\* first_index[P] = N, first_index[i] is the start of the range of rank i,
\* and every process that owns nothing has local_range.first =
\* local_range.second = the end of the nearest non-empty range before it
C17_Fixup ==
  \A p \in Procs : entered(p, "owner") => fixup_contract(p)

\* the same for objects whose global_size is the size of their owned set
C17_OnConstructed ==
  \A p \in Procs :
    (entered(p, "owner") /\ part[p].global_size = call[p].owned.size)
      => fixup_contract(p)

\* import_indices_chunks_by_rank of the object pl has one entry more than
\* import_targets, starts at 0, does not decrease and ends at the number of
\* ranges of import_indices
chunk_table_shape(pl) ==
  \E chunks \in {pl.import_indices_chunks_by_rank_data} :
    /\ Len(chunks) = Len(pl.import_targets_data) + 1
    /\ chunks[1] = 0
    /\ \A i \in 1 .. (Len(chunks) - 1) : chunks[i] <= chunks[i + 1]
    /\ chunks[Len(chunks)] = Len(pl.import_indices_data)

\* C18 (chunk table shape): in every state in which set_ghost_indices has
\* returned, for any number of processes (a single process included),
\* import_indices_chunks_by_rank has length import_targets.len() + 1, first
\* entry 0, is non-decreasing and ends at the number of ranges of
\* import_indices
C18_ChunkTable ==
  \A p \in Procs : Returned(p) => chunk_table_shape(part[p])

\* the same on the communicators of two or more processes
C18_OnWorld ==
  \A p \in Procs :
    (Returned(p) /\ part[p].communicator = MPI_COMM_WORLD)
      => chunk_table_shape(part[p])

\* C19 (global_size follows the owned set): after reinit(owned, ghost, comm)
\* or set_owned_indices(owned) returns on an object made by any constructor,
\* the default constructor included, global_size equals owned.size()
C19_GlobalSize ==
  \A p \in Procs :
    (state[p] # "Empty" /\ exc[p] = "none")
      => part[p].global_size = call[p].owned.size

\* the ranks that a list of targets names
ranks_of(targets) == {targets[i][1] : i \in 1 .. Len(targets)}

calls_set_ghost_indices(p) ==
  \/ state[p] = "OwnedSet" /\ state'[p] = "PlanReady"
  \/ state[p] = "PlanReady" /\ state'[p] = "PlanReadyLarger"

\* the owned ranges of the processes of p's communicator tile [0, N) in rank
\* order: every non-empty local range starts where the ranges of the lower
\* ranks end, and holds the indices of the owned set
owned_ranges_tile(p) ==
  LET c == part[p].communicator
      R == ByRank(c, p, part)
      sizes == [r \in DOMAIN R |-> n_elements(R[r].locally_owned_range_data)]
  IN \A r \in DOMAIN R :
       /\ local_size(R[r]) = sizes[r]
       /\ sizes[r] > 0 =>
            /\ R[r].local_range_data[1] = SumUpTo(sizes, r - 1)
            /\ R[r].locally_owned_range_data.elems
                 = R[r].local_range_data[1] .. (R[r].local_range_data[2] - 1)

same_plan(a, b) ==
  /\ a.ghost_targets_data = b.ghost_targets_data
  /\ a.import_targets_data = b.import_targets_data
  /\ a.import_indices_data = b.import_indices_data
  /\ a.import_indices_chunks_by_rank_data = b.import_indices_chunks_by_rank_data

\* C22 (global compatibility implies the same exchange plan): when two
\* plans, each built on every process by set_owned_indices followed by
\* set_ghost_indices, are globally compatible, then on every process they
\* have equal ghost_targets, import_targets, import_indices and
\* import_indices_chunks_by_rank
C22_SamePlan ==
  \A p \in Procs :
    answer[p].asked /\ answer[p].global => same_plan(part[p], other[p])

\* two plans on three processes were found globally compatible, and some
\* process has a ghost target and some process an import target
C22_Witness ==
  /\ \A p \in Procs :
       /\ answer[p].asked
       /\ answer[p].global
       /\ part[p].communicator = MPI_COMM_WORLD
       /\ other[p].communicator \in {MPI_COMM_WORLD, MPI_COMM_WORLD_DUP}
  /\ \E p \in Procs : Len(part[p].ghost_targets_data) > 0
  /\ \E p \in Procs :
       /\ Len(other[p].import_targets_data) > 0
       /\ Len(other[p].import_indices_data) > 0

\* the statement that is_compatible on one process alone implies equal
\* import_targets on that process; the second half of C22 says it is false
C22_LocalAlone ==
  \A p \in Procs :
    answer[p].asked /\ answer[p].forward
      => part[p].import_targets_data = other[p].import_targets_data
====
